---- MODULE Spec2Model ----
(***************************************************************************)
(* go_bank: the transaction helper Store.execTx, the money transfer        *)
(* Store.TransferTx and addMoney (db/sqlc/store.go), run by concurrent     *)
(* callers against one PostgreSQL database through pgx.                    *)
(*                                                                         *)
(* The database is modelled at READ COMMITTED, the isolation level         *)
(* pgx.TxOptions{} asks for: a transaction's inserts and updates are       *)
(* private until COMMIT; "update accounts set balance = balance + x"       *)
(* takes the row lock of the account, holds it until the transaction ends  *)
(* and computes the new balance from the latest committed row version (or  *)
(* from the transaction's own earlier write).                              *)
(***************************************************************************)
EXTENDS Integers, FiniteSets, Sequences, TLC

\* ----------------------------------------------------------------- bounds
\* Accounts in the database, each created with balance InitBalance.
NumAccounts == 3
InitBalance == 1
\* Concurrent calls of TransferTx in the scenarios of store_test.go (n there).
NumCalls == 3
\* Concurrent calls of TransferTx between any accounts.
NumAnyCalls == 2
\* Concurrent calls of TransferTx when statements may fail, and the faults
\* (failing statements, cancellations, panics) of one run.
NumFaultyCalls == 1
MaxFaults == 2
\* The calls of one run transfer the same amount, as in store_test.go.
MaxAmount == 1
\* The amount of each call of TestTransferTx (amount there).
TestAmount == 2

\* Accounts created through POST /accounts in one run.
MaxCreated == 3

\* net/http status codes the handlers answer with.
StatusOK == 200
StatusBadRequest == 400
StatusNotFound == 404
StatusInternalServerError == 500
\* binding:"required,min=1" of getAccountRequestParams.ID and of PageID;
\* binding:"required,min=5,max=10" of PageSize; PageID and PageSize are int32.
MinID == 1
MinPageSize == 5
MaxPageSize == 10
MaxInt32 == 2147483647

Accounts == 1..NumAccounts
Calls == 1..NumCalls
AnyCalls == 1..NumAnyCalls
FaultyCalls == 1..NumFaultyCalls
Amounts == 1..MaxAmount
\* What a caller may pass to TransferTx: any int64 ids and amount. One id
\* names no account; amounts may be zero or negative.
AnyAccountIDs == 1..(NumAccounts + 1)
AnyAmounts == (0 - MaxAmount)..MaxAmount

\* ----------------------------------------------------------------- errors
\* An error value is a tuple; Nil is Go's nil error.
Nil == <<>>
ErrCtx == <<"context canceled">>
ErrTxAborted == <<"current transaction is aborted">>
ErrTxCommitRollback == <<"commit unexpectedly resulted in rollback">>
ErrBegin == <<"begin failed">>
ErrCommit == <<"commit failed">>
ErrRollback == <<"rollback failed">>
ErrDeadlock == <<"deadlock detected">>
ErrStmt(step) == <<"statement failed", step>>
ErrForeignKey == <<"violates foreign key constraint">>
ErrNoRows == <<"no rows in result set">>
\* database/sql's ErrNoRows, the value getAccount compares the store's error with.
SqlErrNoRows == <<"sql: no rows in result set">>
\* Any other failure of a store method called by a handler.
ErrStore == <<"store failed">>
ErrOffset == <<"OFFSET must not be negative">>

\* ------------------------------------------------------------------- rows
ZeroTransfer == [ID |-> 0, FromAccountID |-> 0, ToAccountID |-> 0, Amount |-> 0]
ZeroEntry == [ID |-> 0, AccountID |-> 0, Amount |-> 0]
ZeroAccount == [ID |-> 0, Balance |-> 0]
ZeroResult ==
    [Transfer |-> ZeroTransfer, FromEntry |-> ZeroEntry, ToEntry |-> ZeroEntry,
     FromAccount |-> ZeroAccount, ToAccount |-> ZeroAccount]
ZeroParams == [FromAccountID |-> 0, ToAccountID |-> 0, Amount |-> 0]
NoWrites == [a \in {} |-> 0]

VARIABLES
    balance,    \* accounts.balance of the committed row of each account
    transfers,  \* committed rows of table transfers
    entries,    \* committed rows of table entries
    lockOwner,  \* per account: the call whose transaction holds its row lock, 0 if free
    txStatus,   \* per call: "none", "open", "aborted", "committed", "rolledback"
    txWrites,   \* per call: uncommitted balances written by its transaction
    txRows,     \* per call: uncommitted rows inserted by its transaction
    applied,    \* per call, per account: sum of the deltas its updates applied
    pc,         \* per call: the statement TransferTx / execTx is about to run
    arg,        \* per call: TransferTxParams
    ctxDone,    \* per call: ctx is cancelled or past its deadline
    result,     \* per call: the TransferTxResult variable of TransferTx
    fnErr,      \* per call: err inside the unit of work (the closure's err)
    fnRet,      \* per call: what the unit of work returned to execTx
    ret,        \* per call: the error TransferTx returned
    issued,     \* per call: what execTx issued on the pool and the transaction, in order
    endErr,     \* per call: the error of the Commit or Rollback execTx issued
    failedAt,   \* per call: the first statement of the unit of work that failed, "" if none
    budget,     \* faults the environment may still inject
    http        \* the API server: accounts created through it, the last request and its answer

vars ==
    <<balance, transfers, entries, lockOwner, txStatus, txWrites, txRows, applied,
      pc, arg, ctxDone, result, fnErr, fnRet, ret, issued, endErr, failedAt, budget,
      http>>

dbVars == <<balance, transfers, entries, lockOwner, txStatus, txWrites, txRows, applied>>

FnSteps == {"transfer", "entry1", "entry2", "update1", "update2"}

\* ---------------------------------------------------------- the API server
\* A request, with the parameters its handler binds (the others stay zero).
ZeroRequest ==
    [method |-> "", path |-> "", ID |-> 0, PageID |-> 0, PageSize |-> 0,
     Owner |-> "", Currency |-> "", FromAccountID |-> 0, ToAccountID |-> 0, Amount |-> 0]

\* The server before its first request. created: the accounts rows created
\* through it; before: created as it was when the last request came in;
\* calls: the store methods the last request called, with their arguments;
\* storeErr: the error the store returned; status, body: the answer.
HttpIdle ==
    [created |-> {}, before |-> {}, req |-> ZeroRequest, calls |-> <<>>,
     storeErr |-> Nil, status |-> 0, body |-> <<>>]

RECURSIVE SumOver(_, _)
SumOver(S, f) ==
    IF S = {} THEN 0
    ELSE LET x == CHOOSE y \in S : TRUE IN f[x] + SumOver(S \ {x}, f)

\* The state before any call: the accounts of accts exist, each with
\* balance InitBalance, and the environment may inject b faults.
InitOn(b, accts) ==
    /\ balance = [a \in accts |-> InitBalance]
    /\ transfers = {}
    /\ entries = {}
    /\ lockOwner = [a \in accts |-> 0]
    /\ txStatus = [t \in Calls |-> "none"]
    /\ txWrites = [t \in Calls |-> NoWrites]
    /\ txRows = [t \in Calls |-> [transfers |-> {}, entries |-> {}]]
    /\ applied = [t \in Calls |-> [a \in accts |-> 0]]
    /\ pc = [t \in Calls |-> "idle"]
    /\ arg = [t \in Calls |-> ZeroParams]
    /\ ctxDone = [t \in Calls |-> FALSE]
    /\ result = [t \in Calls |-> ZeroResult]
    /\ fnErr = [t \in Calls |-> Nil]
    /\ fnRet = [t \in Calls |-> Nil]
    /\ ret = [t \in Calls |-> Nil]
    /\ issued = [t \in Calls |-> <<>>]
    /\ endErr = [t \in Calls |-> Nil]
    /\ failedAt = [t \in Calls |-> ""]
    /\ budget = b
    /\ http = HttpIdle

InitWith(b) == InitOn(b, Accounts)


\* addMoney called with the from account first, whatever the ids.
AddMoneyArgs_FromFirst(p) ==
    <<[id |-> p.FromAccountID, amount |-> -p.Amount, field |-> "FromAccount"],
      [id |-> p.ToAccountID, amount |-> p.Amount, field |-> "ToAccount"]>>

\* addMoney's two accounts assigned to the wrong fields of result.
AddMoneyArgs_SwapsResults(p) ==
    IF p.FromAccountID < p.ToAccountID
    THEN <<[id |-> p.FromAccountID, amount |-> -p.Amount, field |-> "ToAccount"],
           [id |-> p.ToAccountID, amount |-> p.Amount, field |-> "FromAccount"]>>
    ELSE <<[id |-> p.ToAccountID, amount |-> p.Amount, field |-> "FromAccount"],
           [id |-> p.FromAccountID, amount |-> -p.Amount, field |-> "ToAccount"]>>

\* The second call of addMoney written with the amounts of the first one:
\* addMoney(ctx, q, arg.ToAccountID, -arg.Amount, arg.FromAccountID, arg.Amount).
AddMoneyArgs_CopiedAmounts(p) ==
    IF p.FromAccountID < p.ToAccountID
    THEN <<[id |-> p.FromAccountID, amount |-> -p.Amount, field |-> "FromAccount"],
           [id |-> p.ToAccountID, amount |-> p.Amount, field |-> "ToAccount"]>>
    ELSE <<[id |-> p.ToAccountID, amount |-> -p.Amount, field |-> "ToAccount"],
           [id |-> p.FromAccountID, amount |-> p.Amount, field |-> "FromAccount"]>>

\* The two calls of addMoney: the account with the smaller id comes first.
AddMoneyArgs(p) ==
    IF p.FromAccountID < p.ToAccountID
    THEN <<[id |-> p.FromAccountID, amount |-> -p.Amount, field |-> "FromAccount"],
           [id |-> p.ToAccountID, amount |-> p.Amount, field |-> "ToAccount"]>>
    ELSE <<[id |-> p.ToAccountID, amount |-> p.Amount, field |-> "ToAccount"],
           [id |-> p.FromAccountID, amount |-> -p.Amount, field |-> "FromAccount"]>>

\* The account whose row lock the statement call t is about to run needs (0: none).
Target(t) ==
    IF pc[t] = "update1" THEN AddMoneyArgs(arg[t])[1].id
    ELSE IF pc[t] = "update2" THEN AddMoneyArgs(arg[t])[2].id
    ELSE 0

\* The call whose transaction holds the row lock call t waits for (0: none).
Blocker(t) ==
    IF Target(t) \in DOMAIN lockOwner /\ lockOwner[Target(t)] \notin {0, t}
    THEN lockOwner[Target(t)] ELSE 0

WaitsFor(t, u) == u # t /\ Blocker(t) = u

RECURSIVE BlockerN(_, _)
BlockerN(t, n) ==
    IF n = 0 \/ t = 0 THEN t ELSE BlockerN(Blocker(t), n - 1)

\* Call t is part of a circular wait: PostgreSQL's deadlock detector may
\* end its statement with an error.
Deadlocked(t) == Blocker(t) # 0 /\ \E n \in 2..NumCalls : BlockerN(t, n) = t

\* ------------------------------------------------------- the storage engine
\* No foreign key from transfers and entries to accounts.
ForeignKeyHolds_NoCheck(a) == TRUE

\* transfers.from_account_id, transfers.to_account_id and entries.account_id
\* reference accounts(id): an insert naming no account fails.
ForeignKeyHolds(a) == a \in DOMAIN balance

\* The account ids the row inserted by a step of the unit of work refers to.
RefAccounts(t, step) ==
    IF step = "transfer" THEN {arg[t].FromAccountID, arg[t].ToAccountID}
    ELSE IF step = "entry1" THEN {arg[t].FromAccountID}
    ELSE IF step = "entry2" THEN {arg[t].ToAccountID}
    ELSE {}

\* A statement sent with a context that is already done is not run: pgx
\* returns the context's error. Otherwise it succeeds, or (a fault) fails;
\* a failure reported by the server aborts the transaction (aborts = TRUE),
\* one raised on the client (no row for a :one query, a scan error, an
\* injected fault) leaves it usable. A statement in a circular wait may be
\* ended by the deadlock detector. An insert that names no account fails on
\* the foreign key; an update ... returning of no row gives pgx.ErrNoRows.
StmtOutcomes(t, step) ==
    IF ctxDone[t] THEN {[err |-> ErrCtx, aborts |-> FALSE, cost |-> 0]}
    ELSE IF txStatus[t] = "aborted"
    THEN {[err |-> ErrTxAborted, aborts |-> TRUE, cost |-> 0]}
    ELSE IF \E a \in RefAccounts(t, step) : ~ForeignKeyHolds(a)
    THEN {[err |-> ErrForeignKey, aborts |-> TRUE, cost |-> 0]}
    ELSE IF step \in {"update1", "update2"} /\ Target(t) \notin DOMAIN balance
    THEN {[err |-> ErrNoRows, aborts |-> FALSE, cost |-> 0]}
    ELSE {[err |-> Nil, aborts |-> FALSE, cost |-> 0]}
         \cup (IF budget > 0
               THEN {[err |-> ErrStmt(step), aborts |-> b, cost |-> 1] : b \in BOOLEAN}
               ELSE {})
         \cup (IF Deadlocked(t)
               THEN {[err |-> ErrDeadlock, aborts |-> TRUE, cost |-> 0]}
               ELSE {})

\* tx.Commit(context.Background()): the commit does not see the cancellation.
CommitOutcomes_IgnoresCtx(t) ==
    IF txStatus[t] = "aborted" THEN {ErrTxCommitRollback}
    ELSE {Nil} \cup (IF budget > 0 THEN {ErrCommit} ELSE {})

\* tx.Commit(ctx): with a done context nothing is sent and the connection is
\* closed; an aborted transaction answers COMMIT with ROLLBACK.
CommitOutcomes(t) ==
    IF ctxDone[t] THEN {ErrCtx}
    ELSE IF txStatus[t] = "aborted" THEN {ErrTxCommitRollback}
    ELSE {Nil} \cup (IF budget > 0 THEN {ErrCommit} ELSE {})

\* tx.Rollback(ctx)
RollbackOutcomes(t) ==
    IF ctxDone[t] THEN {ErrCtx}
    ELSE {Nil} \cup (IF budget > 0 THEN {ErrRollback} ELSE {})

\* s.db.BeginTx(ctx, pgx.TxOptions{})
BeginOutcomes(t) ==
    IF ctxDone[t] THEN {ErrCtx}
    ELSE {Nil} \cup (IF budget > 0 THEN {ErrBegin} ELSE {})

FaultCost(e) == IF e \in {ErrBegin, ErrCommit, ErrRollback} THEN 1 ELSE 0

\* A balance written without waiting for the row lock (a load-then-save).
RowLockFree_NoLock(t, a) == TRUE

\* An update that needs the whole table: it waits for every row lock.
RowLockFree_TableLock(t, a) == \A x \in DOMAIN lockOwner : lockOwner[x] \in {0, t}

\* The row lock "update accounts ... where id = a" needs.
RowLockFree(t, a) == lockOwner[a] \in {0, t}

\* The row version the transaction of call t sees for account a.
RowSeen(t, a) == IF a \in DOMAIN txWrites[t] THEN txWrites[t][a] ELSE balance[a]

\* An update guarded by a sufficient-funds check: a delta that would make the
\* balance negative is not applied.
UpdateAccountBalanceByID_Floors(t, a, amount) ==
    IF RowSeen(t, a) + amount < 0 THEN RowSeen(t, a) ELSE RowSeen(t, a) + amount

\* set balance = balance + sqlc.arg(amount)
UpdateAccountBalanceByID(t, a, amount) == RowSeen(t, a) + amount

\* The transaction ends without effect: ROLLBACK, or the connection is closed.
Discard(t) ==
    /\ txStatus' = [txStatus EXCEPT ![t] = "rolledback"]
    /\ lockOwner' = [a \in DOMAIN lockOwner |-> IF lockOwner[a] = t THEN 0 ELSE lockOwner[a]]
    /\ txWrites' = [txWrites EXCEPT ![t] = NoWrites]
    /\ txRows' = [txRows EXCEPT ![t] = [transfers |-> {}, entries |-> {}]]
    /\ UNCHANGED <<balance, transfers, entries, applied>>

\* A commit after which the tables hold the rows of this transaction only.
Install_ReplacesRows(t) ==
    /\ txStatus' = [txStatus EXCEPT ![t] = "committed"]
    /\ balance' = [a \in DOMAIN balance |->
                      IF a \in DOMAIN txWrites[t] THEN txWrites[t][a] ELSE balance[a]]
    /\ transfers' = txRows[t].transfers
    /\ entries' = txRows[t].entries
    /\ lockOwner' = [a \in DOMAIN lockOwner |-> IF lockOwner[a] = t THEN 0 ELSE lockOwner[a]]
    /\ txWrites' = [txWrites EXCEPT ![t] = NoWrites]
    /\ txRows' = [txRows EXCEPT ![t] = [transfers |-> {}, entries |-> {}]]
    /\ UNCHANGED applied

\* A commit that leaves the transaction's row locks taken.
Install_KeepsLocks(t) ==
    /\ txStatus' = [txStatus EXCEPT ![t] = "committed"]
    /\ balance' = [a \in DOMAIN balance |->
                      IF a \in DOMAIN txWrites[t] THEN txWrites[t][a] ELSE balance[a]]
    /\ transfers' = transfers \cup txRows[t].transfers
    /\ entries' = entries \cup txRows[t].entries
    /\ txWrites' = [txWrites EXCEPT ![t] = NoWrites]
    /\ txRows' = [txRows EXCEPT ![t] = [transfers |-> {}, entries |-> {}]]
    /\ UNCHANGED <<applied, lockOwner>>

\* COMMIT: the transaction's rows and balances become the committed ones.
Install(t) ==
    /\ txStatus' = [txStatus EXCEPT ![t] = "committed"]
    /\ balance' = [a \in DOMAIN balance |->
                      IF a \in DOMAIN txWrites[t] THEN txWrites[t][a] ELSE balance[a]]
    /\ transfers' = transfers \cup txRows[t].transfers
    /\ entries' = entries \cup txRows[t].entries
    /\ lockOwner' = [a \in DOMAIN lockOwner |-> IF lockOwner[a] = t THEN 0 ELSE lockOwner[a]]
    /\ txWrites' = [txWrites EXCEPT ![t] = NoWrites]
    /\ txRows' = [txRows EXCEPT ![t] = [transfers |-> {}, entries |-> {}]]
    /\ UNCHANGED applied

\* A failed statement: the server aborts the transaction, or it stays usable.
StmtFailed(t, o) ==
    /\ txStatus' = [txStatus EXCEPT ![t] = IF o.aborts THEN "aborted" ELSE @]
    /\ UNCHANGED <<balance, transfers, entries, lockOwner, txWrites, txRows, applied>>

\* ------------------------------------------------------------------ execTx
\* if err != nil { rollback } else { return tx.Commit(ctx) }
AfterFn(e) == IF e # Nil THEN "rollback" ELSE "commit"

\* A failed rollback reported alone: the original error is dropped.
ExecTxErrReturn_DropsOriginal(e, rbErr) == IF rbErr # Nil THEN rbErr ELSE e

\* return fmt.Errorf("tx error: %v, rb error: %v", err, rbErr) / return err
ExecTxErrReturn(e, rbErr) ==
    IF rbErr # Nil THEN <<"tx error", e, "rb error", rbErr>> ELSE e

\* --------------------------------------------------------------- TransferTx
\* What the unit of work returns once addMoney has returned err.
FnReturn(e) == Nil

\* The caller invokes TransferTx(ctx, arg); result is the zero value.
TransferTx(t) ==
    /\ UNCHANGED http
    /\ pc[t] = "idle"
    /\ \A u \in Calls : u < t => pc[u] # "idle"
    /\ \E f \in Accounts, g \in Accounts, m \in Amounts :
          /\ f # g
          /\ \A u \in Calls : pc[u] # "idle" => arg[u].Amount = m
          /\ arg' = [arg EXCEPT ![t] = [FromAccountID |-> f, ToAccountID |-> g, Amount |-> m]]
    /\ pc' = [pc EXCEPT ![t] = "begin"]
    /\ UNCHANGED <<dbVars, ctxDone, result, fnErr, fnRet, ret, issued, endErr,
                   failedAt, budget>>

\* execTx going on to the unit of work although BeginTx failed.
AfterBegin_RunsFn(e) == "transfer"

\* if err != nil { return err }; q := New(tx); err = fn(q)
AfterBegin(e) == IF e # Nil THEN "done" ELSE "transfer"

\* execTx: tx, err := s.db.BeginTx(ctx, ...); if err != nil { return err }
BeginTx(t) ==
    /\ UNCHANGED http
    /\ pc[t] = "begin"
    /\ \E e \in BeginOutcomes(t) :
          /\ budget' = budget - FaultCost(e)
          /\ issued' = [issued EXCEPT ![t] =
                           @ \o (IF e = Nil THEN <<"BeginTx", "fn">> ELSE <<"BeginTx">>)]
          /\ txStatus' = [txStatus EXCEPT ![t] = IF e = Nil THEN "open" ELSE @]
          /\ ret' = [ret EXCEPT ![t] = e]
          /\ pc' = [pc EXCEPT ![t] = AfterBegin(e)]
    /\ UNCHANGED <<balance, transfers, entries, lockOwner, txWrites, txRows, applied,
                   arg, ctxDone, result, fnErr, fnRet, endErr, failedAt>>

\* A failed statement whose error the closure drops: it returns nil.
FnFails_ReturnsNil(t, step, o) ==
    /\ StmtFailed(t, o)
    /\ budget' = budget - o.cost
    /\ fnErr' = [fnErr EXCEPT ![t] = o.err]
    /\ fnRet' = [fnRet EXCEPT ![t] = Nil]
    /\ failedAt' = [failedAt EXCEPT ![t] = step]
    /\ pc' = [pc EXCEPT ![t] = "commit"]
    /\ UNCHANGED <<arg, ctxDone, result, ret, issued, endErr>>

\* A statement of the unit of work failed with o.err and the closure returns it.
FnFails(t, step, o) ==
    /\ StmtFailed(t, o)
    /\ budget' = budget - o.cost
    /\ fnErr' = [fnErr EXCEPT ![t] = o.err]
    /\ fnRet' = [fnRet EXCEPT ![t] = o.err]
    /\ failedAt' = [failedAt EXCEPT ![t] = step]
    /\ pc' = [pc EXCEPT ![t] = AfterFn(o.err)]
    /\ UNCHANGED <<arg, ctxDone, result, ret, issued, endErr>>

\* result.Transfer, err = q.CreateTransfer(ctx, CreateTransferParams(arg))
CreateTransfer(t) ==
    /\ UNCHANGED http
    /\ pc[t] = "transfer"
    /\ \E o \in StmtOutcomes(t, "transfer") :
          IF o.err # Nil THEN FnFails(t, "transfer", o)
          ELSE LET row == [ID |-> t, FromAccountID |-> arg[t].FromAccountID,
                           ToAccountID |-> arg[t].ToAccountID, Amount |-> arg[t].Amount]
               IN /\ txRows' = [txRows EXCEPT ![t].transfers = @ \cup {row}]
                  /\ result' = [result EXCEPT ![t].Transfer = row]
                  /\ pc' = [pc EXCEPT ![t] = "entry1"]
                  /\ UNCHANGED <<balance, transfers, entries, lockOwner, txStatus,
                                 txWrites, applied, arg, ctxDone, fnErr, fnRet, ret,
                                 issued, endErr, failedAt, budget>>

\* result.FromEntry, err = q.CreateEntry(ctx, {arg.FromAccountID, -arg.Amount})
CreateEntry1(t) ==
    /\ UNCHANGED http
    /\ pc[t] = "entry1"
    /\ \E o \in StmtOutcomes(t, "entry1") :
          IF o.err # Nil THEN FnFails(t, "entry1", o)
          ELSE LET row == [ID |-> 2 * t - 1, AccountID |-> arg[t].FromAccountID,
                           Amount |-> -arg[t].Amount]
               IN /\ txRows' = [txRows EXCEPT ![t].entries = @ \cup {row}]
                  /\ result' = [result EXCEPT ![t].FromEntry = row]
                  /\ pc' = [pc EXCEPT ![t] = "entry2"]
                  /\ UNCHANGED <<balance, transfers, entries, lockOwner, txStatus,
                                 txWrites, applied, arg, ctxDone, fnErr, fnRet, ret,
                                 issued, endErr, failedAt, budget>>

\* result.ToEntry, err = q.CreateEntry(ctx, {arg.ToAccountID, arg.Amount})
CreateEntry2(t) ==
    /\ UNCHANGED http
    /\ pc[t] = "entry2"
    /\ \E o \in StmtOutcomes(t, "entry2") :
          IF o.err # Nil THEN FnFails(t, "entry2", o)
          ELSE LET row == [ID |-> 2 * t, AccountID |-> arg[t].ToAccountID,
                           Amount |-> arg[t].Amount]
               IN /\ txRows' = [txRows EXCEPT ![t].entries = @ \cup {row}]
                  /\ result' = [result EXCEPT ![t].ToEntry = row]
                  /\ pc' = [pc EXCEPT ![t] = "update1"]
                  /\ UNCHANGED <<balance, transfers, entries, lockOwner, txStatus,
                                 txWrites, applied, arg, ctxDone, fnErr, fnRet, ret,
                                 issued, endErr, failedAt, budget>>

\* addMoney returned err to the closure, which returns FnReturn(err) to execTx.
AddMoneyReturns(t, e) ==
    /\ fnErr' = [fnErr EXCEPT ![t] = e]
    /\ fnRet' = [fnRet EXCEPT ![t] = FnReturn(e)]
    /\ pc' = [pc EXCEPT ![t] = AfterFn(FnReturn(e))]

\* addMoney: account1, err = q.UpdateAccountBalanceByID(ctx, {accountID1, amount1});
\* if err != nil { return }. The statement waits while another transaction
\* holds the row lock. account1 is kept in its field of result, which no one
\* reads before TransferTx returns.
UpdateBalance1(t) ==
    /\ UNCHANGED http
    /\ pc[t] = "update1"
    /\ LET u == AddMoneyArgs(arg[t])[1] IN
       \E o \in StmtOutcomes(t, "update1") :
          IF o.err # Nil
          THEN /\ StmtFailed(t, o)
               /\ budget' = budget - o.cost
               /\ failedAt' = [failedAt EXCEPT ![t] = "update1"]
               /\ AddMoneyReturns(t, o.err)
               /\ UNCHANGED <<arg, ctxDone, result, ret, issued, endErr>>
          ELSE /\ RowLockFree(t, u.id)
               /\ LET new == UpdateAccountBalanceByID(t, u.id, u.amount) IN
                  /\ txWrites' = [txWrites EXCEPT ![t] =
                        [a \in DOMAIN @ \cup {u.id} |-> IF a = u.id THEN new ELSE @[a]]]
                  /\ result' = [result EXCEPT ![t][u.field] = [ID |-> u.id, Balance |-> new]]
               /\ lockOwner' = [lockOwner EXCEPT ![u.id] = t]
               /\ applied' = [applied EXCEPT ![t][u.id] = @ + u.amount]
               /\ pc' = [pc EXCEPT ![t] = "update2"]
               /\ UNCHANGED <<balance, transfers, entries, txStatus, txRows, arg, ctxDone,
                              fnErr, fnRet, ret, issued, endErr, failedAt, budget>>

\* addMoney: account2, err = q.UpdateAccountBalanceByID(ctx, {accountID2, amount2});
\* return. Then the closure returns.
UpdateBalance2(t) ==
    /\ UNCHANGED http
    /\ pc[t] = "update2"
    /\ LET u == AddMoneyArgs(arg[t])[2] IN
       \E o \in StmtOutcomes(t, "update2") :
          IF o.err # Nil
          THEN /\ StmtFailed(t, o)
               /\ budget' = budget - o.cost
               /\ failedAt' = [failedAt EXCEPT ![t] = "update2"]
               /\ AddMoneyReturns(t, o.err)
               /\ UNCHANGED <<arg, ctxDone, result, ret, issued, endErr>>
          ELSE /\ RowLockFree(t, u.id)
               /\ LET new == UpdateAccountBalanceByID(t, u.id, u.amount) IN
                  /\ txWrites' = [txWrites EXCEPT ![t] =
                        [a \in DOMAIN @ \cup {u.id} |-> IF a = u.id THEN new ELSE @[a]]]
                  /\ result' = [result EXCEPT ![t][u.field] = [ID |-> u.id, Balance |-> new]]
               /\ lockOwner' = [lockOwner EXCEPT ![u.id] = t]
               /\ applied' = [applied EXCEPT ![t][u.id] = @ + u.amount]
               /\ AddMoneyReturns(t, Nil)
               /\ UNCHANGED <<balance, transfers, entries, txStatus, txRows, arg, ctxDone,
                              ret, issued, endErr, failedAt, budget>>

\* A commit failure retried: execTx opens a new transaction and runs fn again.
AfterCommit_Retry(e) == IF e # Nil THEN "begin" ELSE "done"

\* Where execTx goes once tx.Commit(ctx) has returned e: it returns e.
AfterCommit(e) == "done"

\* execTx: return tx.Commit(ctx); TransferTx: return result, err
Commit(t) ==
    /\ UNCHANGED http
    /\ pc[t] = "commit"
    /\ \E e \in CommitOutcomes(t) :
          /\ IF e = Nil THEN Install(t) ELSE Discard(t)
          /\ budget' = budget - FaultCost(e)
          /\ issued' = [issued EXCEPT ![t] = Append(@, "Commit")]
          /\ endErr' = [endErr EXCEPT ![t] = e]
          /\ ret' = [ret EXCEPT ![t] = e]
          /\ pc' = [pc EXCEPT ![t] = AfterCommit(e)]
    /\ UNCHANGED <<arg, ctxDone, result, fnErr, fnRet, failedAt>>

\* execTx: if rbErr := tx.Rollback(ctx); rbErr != nil { return fmt.Errorf(...) };
\* return err. Whatever Rollback reports, the transaction has no effect: pgx
\* closes the connection when ROLLBACK cannot be run.
Rollback(t) ==
    /\ UNCHANGED http
    /\ pc[t] = "rollback"
    /\ \E rbErr \in RollbackOutcomes(t) :
          /\ Discard(t)
          /\ budget' = budget - FaultCost(rbErr)
          /\ issued' = [issued EXCEPT ![t] = Append(@, "Rollback")]
          /\ endErr' = [endErr EXCEPT ![t] = rbErr]
          /\ ret' = [ret EXCEPT ![t] = ExecTxErrReturn(fnRet[t], rbErr)]
          /\ pc' = [pc EXCEPT ![t] = "done"]
    /\ UNCHANGED <<arg, ctxDone, result, fnErr, fnRet, failedAt>>

\* The caller cancels ctx, or its deadline passes, while the call is running.
Cancel(t) ==
    /\ UNCHANGED http
    /\ pc[t] \in {"begin", "commit", "rollback"} \cup FnSteps
    /\ ~ctxDone[t]
    /\ budget > 0
    /\ budget' = budget - 1
    /\ ctxDone' = [ctxDone EXCEPT ![t] = TRUE]
    /\ UNCHANGED <<dbVars, pc, arg, result, fnErr, fnRet, ret, issued, endErr, failedAt>>

\* The unit of work panics: execTx has no defer and no recover, so the panic
\* unwinds through execTx and TransferTx, and the transaction stays open.
Panic(t) ==
    /\ UNCHANGED http
    /\ pc[t] \in FnSteps
    /\ budget > 0
    /\ budget' = budget - 1
    /\ pc' = [pc EXCEPT ![t] = "panicked"]
    /\ UNCHANGED <<dbVars, arg, ctxDone, result, fnErr, fnRet, ret, issued, endErr,
                   failedAt>>

\* TestTransferTxDeadlock: call i+1 goes from account1 to account2 when i is
\* even and the other way when i is odd, all with the same amount.
TransferTxAlternating(t) ==
    /\ UNCHANGED http
    /\ pc[t] = "idle"
    /\ \E m \in Amounts :
          /\ \A u \in Calls : pc[u] # "idle" => arg[u].Amount = m
          /\ arg' = [arg EXCEPT ![t] =
                IF (t - 1) % 2 = 1
                THEN [FromAccountID |-> 2, ToAccountID |-> 1, Amount |-> m]
                ELSE [FromAccountID |-> 1, ToAccountID |-> 2, Amount |-> m]]
    /\ pc' = [pc EXCEPT ![t] = "begin"]
    /\ UNCHANGED <<dbVars, ctxDone, result, fnErr, fnRet, ret, issued, endErr,
                   failedAt, budget>>

\* TestTransferTx: every call goes from account1 to account2 with the same
\* amount.
TransferTxSameDirection(t) ==
    /\ UNCHANGED http
    /\ pc[t] = "idle"
    /\ arg' = [arg EXCEPT ![t] =
                  [FromAccountID |-> 1, ToAccountID |-> 2, Amount |-> TestAmount]]
    /\ pc' = [pc EXCEPT ![t] = "begin"]
    /\ UNCHANGED <<dbVars, ctxDone, result, fnErr, fnRet, ret, issued, endErr,
                   failedAt, budget>>

\* TransferTx called with whatever the caller passes: TransferTx checks
\* nothing before it calls execTx.
TransferTxAnyInput(t) ==
    /\ UNCHANGED http
    /\ pc[t] = "idle"
    /\ \A u \in Calls : u < t => pc[u] # "idle"
    /\ \E f \in AnyAccountIDs, g \in AnyAccountIDs, m \in AnyAmounts :
          /\ \A u \in Calls : pc[u] # "idle" => arg[u].Amount = m
          /\ arg' = [arg EXCEPT ![t] = [FromAccountID |-> f, ToAccountID |-> g, Amount |-> m]]
    /\ pc' = [pc EXCEPT ![t] = "begin"]
    /\ UNCHANGED <<dbVars, ctxDone, result, fnErr, fnRet, ret, issued, endErr,
                   failedAt, budget>>

\* UPDATE accounts SET balance = $2 WHERE id = $1 RETURNING *, a method Store
\* has through the embedded *Queries, run on the pool outside any
\* transaction. The caller of call t gives the amount back to the from
\* account: $2 is the balance it read in the TransferTxResult plus the amount.
\* The statement waits for the row lock and commits on its own.
UpdateAccountByID(t) ==
    /\ UNCHANGED http
    /\ pc[t] = "done"
    /\ ret[t] = Nil
    /\ LET account == result[t].FromAccount IN
          /\ account.ID \in DOMAIN balance
          /\ lockOwner[account.ID] = 0
          /\ balance' = [balance EXCEPT ![account.ID] = account.Balance + arg[t].Amount]
          /\ applied' = [applied EXCEPT ![t][account.ID] = @ + arg[t].Amount]
    /\ pc' = [pc EXCEPT ![t] = "updated"]
    /\ UNCHANGED <<transfers, entries, lockOwner, txStatus, txWrites, txRows, arg,
                   ctxDone, result, fnErr, fnRet, ret, issued, endErr, failedAt, budget>>

\* ---------------------------------------------------- the store, as the API uses it
\* The rows of table accounts: those of Accounts and those created since.
AccountRows ==
    {[ID |-> a, Owner |-> "owner", Balance |-> balance[a], Currency |-> "USD"] :
        a \in Accounts} \cup http.created

\* select * from accounts where id = $1 limit 1: the row, pgx.ErrNoRows when
\* there is none, or a failure of the store.
StoreGetAccountById(id) ==
    (IF \E r \in AccountRows : r.ID = id
     THEN {[rows |-> <<r>>, err |-> Nil] : r \in {x \in AccountRows : x.ID = id}}
     ELSE {[rows |-> <<>>, err |-> ErrNoRows]})
    \cup {[rows |-> <<>>, err |-> ErrStore]}

\* The rows of S in ascending order of id.
RECURSIVE OrderByID(_)
OrderByID(S) ==
    IF S = {} THEN <<>>
    ELSE LET first == CHOOSE r \in S : \A x \in S : r.ID <= x.ID
         IN <<first>> \o OrderByID(S \ {first})

\* select * from accounts order by id limit $1 offset $2
StoreListAccounts(limit, offset) ==
    (IF offset < 0 THEN {[rows |-> <<>>, err |-> ErrOffset]}
     ELSE LET all == OrderByID(AccountRows)
              last == IF limit < Len(all) - offset THEN offset + limit ELSE Len(all)
          IN {[rows |-> IF offset >= Len(all) THEN <<>> ELSE SubSeq(all, offset + 1, last),
               err |-> Nil]})
    \cup {[rows |-> <<>>, err |-> ErrStore]}

\* insert into accounts(owner, balance, currency) values ($1, $2, $3)
\* returning *: the new row gets the next id of the table.
StoreCreateAccount(params) ==
    {[rows |-> <<[ID |-> NumAccounts + Cardinality(http.created) + 1,
                  Owner |-> params.Owner, Balance |-> params.Balance,
                  Currency |-> params.Currency]>>,
      err |-> Nil],
     [rows |-> <<>>, err |-> ErrStore]}

\* ------------------------------------------------------------- int32
\* a + b in Go's int32: the sum wraps around.
Add32(a, b) ==
    IF a >= 0 /\ b >= 0 /\ a > MaxInt32 - b
    THEN (a - MaxInt32 - 1) + (b - MaxInt32 - 1)
    ELSE IF a < 0 /\ b < 0 /\ a < (0 - MaxInt32 - 1) - b
    THEN (a + MaxInt32 + 1) + (b + MaxInt32 + 1)
    ELSE a + b

\* x * n in Go's int32, for a small n >= 0.
RECURSIVE Mul32(_, _)
Mul32(x, n) == IF n = 0 THEN 0 ELSE Add32(Mul32(x, n - 1), x)

\* ------------------------------------------------------------- handlers
\* router.POST("/accounts", ...), router.GET("/accounts/:id", ...),
\* router.GET("/accounts", ...), router.GET("/ping", ...); the route
\* POST /transfers is commented out.
Routes ==
    {<<"GET", "/ping">>, <<"POST", "/accounts">>, <<"GET", "/accounts/:id">>,
     <<"GET", "/accounts">>}

\* What the handlers answer; a request no route matches gets gin's 404.
Respond(req, calls, storeErr, status, body) ==
    [created |-> http.created, before |-> http.created, req |-> req, calls |-> calls,
     storeErr |-> storeErr, status |-> status, body |-> body]

\* The ids, pages and page sizes requests carry.
RequestIDs == (0 - 1)..(NumAccounts + MaxCreated + 1)
PageIDs == {0, 1, 2, MaxInt32}
PageSizes == {MinPageSize - 1, MinPageSize, MaxPageSize, MaxPageSize + 1}
Owners == {"", "alice"}
Currencies == {"", "EUR"}

\* A uri binding that accepts every id.
BindGetAccount_NoMin(id) == TRUE

\* ctx.ShouldBindUri(&req) with ID binding:"required,min=1"
BindGetAccount(id) == id # 0 /\ id >= MinID

\* if err == sql.ErrNoRows { 404 } else { 500 }
GetAccountErrStatus(err) ==
    IF err = SqlErrNoRows THEN StatusNotFound ELSE StatusInternalServerError

\* Server.getAccount
GetAccount ==
    /\ <<"GET", "/accounts/:id">> \in Routes
    /\ \E id \in RequestIDs :
          LET req == [ZeroRequest EXCEPT !.method = "GET", !.path = "/accounts/:id", !.ID = id]
          IN IF ~BindGetAccount(id)
             THEN http' = Respond(req, <<>>, Nil, StatusBadRequest, <<>>)
             ELSE \E o \in StoreGetAccountById(id) :
                     http' = Respond(req, <<<<"GetAccountById", id>>>>, o.err,
                                     IF o.err # Nil THEN GetAccountErrStatus(o.err)
                                     ELSE StatusOK,
                                     o.rows)
    /\ UNCHANGED <<dbVars, pc, arg, ctxDone, result, fnErr, fnRet, ret, issued, endErr,
                   failedAt, budget>>

\* ctx.ShouldBindQuery(&req) with PageID binding:"required,min=1" and
\* PageSize binding:"required,min=5,max=10"
BindListAccounts(pageID, pageSize) ==
    /\ pageID # 0 /\ pageID >= MinID
    /\ pageSize # 0 /\ pageSize >= MinPageSize /\ pageSize <= MaxPageSize

\* db.ListAccountsParams{Limit: req.PageSize, Offset: (req.PageID - 1) * req.PageSize}
ListAccountsParams(pageID, pageSize) ==
    [Limit |-> pageSize, Offset |-> Mul32(Add32(pageID, 0 - 1), pageSize)]

\* Server.listAccounts
ListAccounts ==
    /\ <<"GET", "/accounts">> \in Routes
    /\ \E pageID \in PageIDs, pageSize \in PageSizes :
          LET req == [ZeroRequest EXCEPT !.method = "GET", !.path = "/accounts",
                                         !.PageID = pageID, !.PageSize = pageSize]
          IN IF ~BindListAccounts(pageID, pageSize)
             THEN http' = Respond(req, <<>>, Nil, StatusBadRequest, <<>>)
             ELSE LET p == ListAccountsParams(pageID, pageSize) IN
                  \E o \in StoreListAccounts(p.Limit, p.Offset) :
                     http' = Respond(req, <<<<"ListAccounts", p.Limit, p.Offset>>>>, o.err,
                                     IF o.err # Nil THEN StatusInternalServerError
                                     ELSE StatusOK,
                                     o.rows)
    /\ UNCHANGED <<dbVars, pc, arg, ctxDone, result, fnErr, fnRet, ret, issued, endErr,
                   failedAt, budget>>

\* ctx.ShouldBindJSON(&req) with Owner and Currency binding:"required"
BindCreateAccount(owner, currency) == owner # "" /\ currency # ""

\* The owner and the currency passed in each other's place.
CreateAccountParams_Swapped(owner, currency) ==
    [Owner |-> currency, Currency |-> owner, Balance |-> 0]

\* db.CreateAccountParams{Owner: req.Owner, Currency: req.Currency, Balance: 0}
CreateAccountParams(owner, currency) ==
    [Owner |-> owner, Currency |-> currency, Balance |-> 0]

\* Server.createAccount
CreateAccount ==
    /\ <<"POST", "/accounts">> \in Routes
    /\ Cardinality(http.created) < MaxCreated
    /\ \E owner \in Owners, currency \in Currencies :
          LET req == [ZeroRequest EXCEPT !.method = "POST", !.path = "/accounts",
                                         !.Owner = owner, !.Currency = currency]
          IN IF ~BindCreateAccount(owner, currency)
             THEN http' = Respond(req, <<>>, Nil, StatusBadRequest, <<>>)
             ELSE LET p == CreateAccountParams(owner, currency) IN
                  \E o \in StoreCreateAccount(p) :
                     http' = [Respond(req,
                                      <<<<"CreateAccount", p.Owner, p.Currency, p.Balance>>>>,
                                      o.err,
                                      IF o.err # Nil THEN StatusInternalServerError
                                      ELSE StatusOK,
                                      o.rows)
                              EXCEPT !.created =
                                  @ \cup {o.rows[i] : i \in DOMAIN o.rows}]
    /\ UNCHANGED <<dbVars, pc, arg, ctxDone, result, fnErr, fnRet, ret, issued, endErr,
                   failedAt, budget>>

\* POST /transfers {from_account_id, to_account_id, amount}: the router has
\* no route for it and answers 404 without calling a handler.
PostTransfers ==
    /\ <<"POST", "/transfers">> \notin Routes
    /\ \E f \in AnyAccountIDs, g \in AnyAccountIDs, m \in AnyAmounts :
          http' = Respond([ZeroRequest EXCEPT !.method = "POST", !.path = "/transfers",
                                              !.FromAccountID = f, !.ToAccountID = g,
                                              !.Amount = m],
                          <<>>, Nil, StatusNotFound, <<>>)
    /\ UNCHANGED <<dbVars, pc, arg, ctxDone, result, fnErr, fnRet, ret, issued, endErr,
                   failedAt, budget>>

Init == InitWith(MaxFaults)

Next ==
    \E t \in FaultyCalls :
        \/ TransferTx(t)
        \/ BeginTx(t)
        \/ CreateTransfer(t)
        \/ CreateEntry1(t)
        \/ CreateEntry2(t)
        \/ UpdateBalance1(t)
        \/ UpdateBalance2(t)
        \/ Commit(t)
        \/ Rollback(t)
        \/ Cancel(t)
        \/ Panic(t)

\* Concurrent transfers, statements that fail, cancellation and panics.
Spec == Init /\ [][Next]_vars

InitNoFault == InitWith(0)

NextNoFault ==
    \E t \in AnyCalls :
        \/ TransferTx(t)
        \/ BeginTx(t)
        \/ CreateTransfer(t)
        \/ CreateEntry1(t)
        \/ CreateEntry2(t)
        \/ UpdateBalance1(t)
        \/ UpdateBalance2(t)
        \/ Commit(t)

\* Concurrent transfers between any accounts on a storage engine that never fails.
SpecNoFault == InitNoFault /\ [][NextNoFault]_vars

NextAlternating ==
    \E t \in Calls :
        \/ TransferTxAlternating(t)
        \/ BeginTx(t)
        \/ CreateTransfer(t)
        \/ CreateEntry1(t)
        \/ CreateEntry2(t)
        \/ UpdateBalance1(t)
        \/ UpdateBalance2(t)
        \/ Commit(t)

\* TestTransferTxDeadlock on a storage engine that never fails.
SpecAlternating == InitNoFault /\ [][NextAlternating]_vars

NextSameDirection ==
    \E t \in Calls :
        \/ TransferTxSameDirection(t)
        \/ BeginTx(t)
        \/ CreateTransfer(t)
        \/ CreateEntry1(t)
        \/ CreateEntry2(t)
        \/ UpdateBalance1(t)
        \/ UpdateBalance2(t)
        \/ Commit(t)

\* TestTransferTx on a storage engine that never fails.
SpecSameDirection == InitNoFault /\ [][NextSameDirection]_vars

NextAnyInput ==
    \E t \in FaultyCalls :
        \/ TransferTxAnyInput(t)
        \/ BeginTx(t)
        \/ CreateTransfer(t)
        \/ CreateEntry1(t)
        \/ CreateEntry2(t)
        \/ UpdateBalance1(t)
        \/ UpdateBalance2(t)
        \/ Commit(t)
        \/ Rollback(t)

\* Calls with any parameters on a storage engine that fails only when a
\* statement names no account.
SpecAnyInput == InitNoFault /\ [][NextAnyInput]_vars

NextSetBalance ==
    \E t \in AnyCalls :
        \/ TransferTx(t)
        \/ BeginTx(t)
        \/ CreateTransfer(t)
        \/ CreateEntry1(t)
        \/ CreateEntry2(t)
        \/ UpdateBalance1(t)
        \/ UpdateBalance2(t)
        \/ Commit(t)
        \/ UpdateAccountByID(t)

\* Concurrent transfers whose callers also use Store.UpdateAccountByID.
SpecSetBalance == InitNoFault /\ [][NextSetBalance]_vars

\* Accounts enough for every call to have a pair of its own.
DisjointAccounts == 1..(2 * NumAnyCalls)

InitDisjoint == InitOn(0, DisjointAccounts)

\* TransferTx called between two accounts no other call names.
TransferTxDisjoint(t) ==
    /\ UNCHANGED http
    /\ pc[t] = "idle"
    /\ \A u \in Calls : u < t => pc[u] # "idle"
    /\ \E f \in DisjointAccounts, g \in DisjointAccounts, m \in Amounts :
          /\ f # g
          /\ \A u \in Calls :
                pc[u] # "idle" =>
                    /\ arg[u].Amount = m
                    /\ {f, g} \cap {arg[u].FromAccountID, arg[u].ToAccountID} = {}
          /\ arg' = [arg EXCEPT ![t] = [FromAccountID |-> f, ToAccountID |-> g, Amount |-> m]]
    /\ pc' = [pc EXCEPT ![t] = "begin"]
    /\ UNCHANGED <<dbVars, ctxDone, result, fnErr, fnRet, ret, issued, endErr,
                   failedAt, budget>>

\* The next statement of a call that is running, on an engine that never fails.
StepNoFault(t) ==
    \/ BeginTx(t)
    \/ CreateTransfer(t)
    \/ CreateEntry1(t)
    \/ CreateEntry2(t)
    \/ UpdateBalance1(t)
    \/ UpdateBalance2(t)
    \/ Commit(t)

NextDisjoint ==
    \E t \in AnyCalls :
        \/ TransferTxDisjoint(t)
        \/ StepNoFault(t)

\* Concurrent transfers on disjoint pairs of accounts.
SpecDisjoint == InitDisjoint /\ [][NextDisjoint]_vars

\* The next statement of a call that is running, on an engine whose
\* statements succeed or fail.
StepFaulty(t) ==
    \/ StepNoFault(t)
    \/ Rollback(t)

NextFair ==
    \E t \in AnyCalls :
        \/ TransferTx(t)
        \/ StepFaulty(t)
        \/ Cancel(t)

\* Every goroutine is scheduled and the engine answers every statement it
\* can run: a call whose next statement can run without an injected fault
\* takes a step. Faults may happen, none has to.
Fairness == \A t \in AnyCalls : WF_vars(StepFaulty(t) /\ budget' = budget)

\* Concurrent transfers under fair scheduling, with statements that fail and
\* cancellation.
SpecFair == Init /\ [][NextFair]_vars /\ Fairness

\* Calls whose pairs of accounts form a cycle: call 1 goes from account 1 to
\* account 2, call 2 from 2 to 3, ..., the last one back to account 1.
TransferTxCycle(t) ==
    /\ UNCHANGED http
    /\ pc[t] = "idle"
    /\ \E m \in Amounts :
          /\ \A u \in Calls : pc[u] # "idle" => arg[u].Amount = m
          /\ arg' = [arg EXCEPT ![t] =
                [FromAccountID |-> ((t - 1) % NumAccounts) + 1,
                 ToAccountID |-> (t % NumAccounts) + 1,
                 Amount |-> m]]
    /\ pc' = [pc EXCEPT ![t] = "begin"]
    /\ UNCHANGED <<dbVars, ctxDone, result, fnErr, fnRet, ret, issued, endErr,
                   failedAt, budget>>

NextCycle ==
    \E t \in Calls :
        \/ TransferTxCycle(t)
        \/ StepNoFault(t)

\* Every goroutine is started and scheduled, and the engine answers every
\* statement it can run.
FairnessCycle == \A t \in Calls : WF_vars(TransferTxCycle(t) \/ StepNoFault(t))

\* Concurrent transfers around a cycle of accounts, under fair scheduling.
SpecCycle == InitNoFault /\ [][NextCycle]_vars /\ FairnessCycle

NextHttp ==
    \/ GetAccount
    \/ ListAccounts
    \/ CreateAccount
    \/ PostTransfers

\* The API server answering one request after the other.
SpecHttp == InitNoFault /\ [][NextHttp]_vars

\* ------------------------------------------------------------------ claims
Count(seq, x) == Cardinality({i \in DOMAIN seq : seq[i] = x})

\* The rows call t inserts.
TransferRowOf(t) == {r \in transfers : r.ID = t}
EntryRowsOf(t) == {r \in entries : r.ID \in {2 * t - 1, 2 * t}}
NoRowVisible(t) == TransferRowOf(t) = {} /\ EntryRowsOf(t) = {}

\* The committed balance of account a when only the calls in S count.
BalanceFrom(S, a) ==
    InitBalance + SumOver({u \in S : txStatus[u] = "committed"}, [u \in Calls |-> applied[u][a]])

\* The committed balances are what they would be had call t never been made.
BalancesWithout(t) == \A a \in Accounts : balance[a] = BalanceFrom(Calls \ {t}, a)

\* C1 (as claimed): a call in which create entry 1, create entry 2 or one of
\* the two balance updates failed has returned with its transaction rolled
\* back: the committed balances are those from before the call and no
\* Transfer or Entry row of the call is visible.
C1_Atomicity ==
    \A t \in Calls :
        (pc[t] = "done" /\ failedAt[t] \in {"entry1", "entry2", "update1", "update2"})
            => /\ txStatus[t] = "rolledback"
               /\ NoRowVisible(t)
               /\ BalancesWithout(t)

\* C2 (as claimed): as long as every call that returned returned a nil error,
\* the sum of the committed balances of all accounts is the initial sum.
C2_Conservation ==
    (\A t \in Calls : pc[t] = "done" => ret[t] = Nil)
        => SumOver(Accounts, balance) = NumAccounts * InitBalance

\* The accounts a call transfers between.
AccountsOf(t) == {arg[t].FromAccountID, arg[t].ToAccountID}
MutualWait(t, u) == WaitsFor(t, u) /\ WaitsFor(u, t)

\* C3: in TestTransferTxDeadlock's scenario (calls alternating direction
\* between accounts 1 and 2) no two transactions ever wait for a row lock the
\* other holds, and every call that returned returned a nil error.
C3_AlternatingNoDeadlock ==
    /\ \A t \in Calls, u \in Calls : ~MutualWait(t, u)
    /\ \A t \in Calls : pc[t] = "done" => ret[t] = Nil

\* C3 witness: all calls, of both directions, have returned nil and committed.
C3_Witness ==
    /\ \A t \in Calls : pc[t] = "done" /\ ret[t] = Nil /\ txStatus[t] = "committed"
    /\ \E t \in Calls, u \in Calls : arg[t].FromAccountID = arg[u].ToAccountID

\* C4: two calls with a common account never both hold an uncommitted
\* balance of that account (their updates of it are applied one after the
\* other), and never wait for each other.
C4_SerializedNoMutualWait ==
    \A t \in Calls, u \in Calls :
        (t # u /\ AccountsOf(t) \cap AccountsOf(u) # {})
            => /\ DOMAIN txWrites[t] \cap DOMAIN txWrites[u] = {}
               /\ ~MutualWait(t, u)

\* C4 witness: two calls whose pairs overlap in exactly one account, one
\* waiting for the row lock the other holds.
C4_Witness ==
    \E t \in Calls, u \in Calls :
        /\ WaitsFor(t, u)
        /\ Cardinality(AccountsOf(t) \cap AccountsOf(u)) = 1

\* C5: once every transaction that applied a delta to an account has
\* committed, the account's balance is its initial balance plus the sum of
\* all those deltas.
C5_NoLostUpdate ==
    \A a \in Accounts :
        (\A t \in Calls : applied[t][a] # 0 => txStatus[t] = "committed")
            => balance[a] = InitBalance + SumOver(Calls, [t \in Calls |-> applied[t][a]])

\* C5 witness: two committed transactions took money from the same account.
C5_Witness ==
    \E a \in Accounts, t \in Calls, u \in Calls :
        /\ t # u
        /\ txStatus[t] = "committed" /\ txStatus[u] = "committed"
        /\ applied[t][a] < 0 /\ applied[u][a] < 0

\* C6 (as claimed): when a statement of the unit of work failed, the unit of
\* work returned that error, execTx issued a rollback and TransferTx returned
\* a non-nil error.
C6_NoErrorSwallowed ==
    \A t \in Calls :
        (pc[t] = "done" /\ failedAt[t] # "")
            => /\ fnRet[t] = fnErr[t]
               /\ Count(issued[t], "Rollback") = 1
               /\ ret[t] # Nil

\* C7 (as claimed): when control has left execTx, by return or by panic, and
\* the transaction had been opened, exactly one of commit and rollback was
\* issued on it.
C7_ExactlyOneCommitOrRollback ==
    \A t \in Calls :
        (pc[t] \in {"done", "panicked"} /\ Count(issued[t], "fn") > 0)
            => Count(issued[t], "Commit") + Count(issued[t], "Rollback") = 1

\* C8: when the unit of work returned an error, execTx opened one
\* transaction, ran the unit of work once, issued a rollback and no commit,
\* and returned the unit of work's error itself when the rollback succeeded,
\* and an error holding both that error and the rollback's when it failed.
C8_ErrorPath ==
    \A t \in Calls :
        (pc[t] = "done" /\ fnRet[t] # Nil)
            => /\ issued[t] = <<"BeginTx", "fn", "Rollback">>
               /\ txStatus[t] = "rolledback"
               /\ endErr[t] = Nil => ret[t] = fnRet[t]
               /\ endErr[t] # Nil
                    => /\ Len(ret[t]) = 4
                       /\ ret[t][2] = fnRet[t]
                       /\ ret[t][4] = endErr[t]

\* C8 witness: the unit of work failed and then the rollback failed.
C8_Witness ==
    \E t \in Calls :
        /\ pc[t] = "done"
        /\ fnRet[t] = ErrStmt("entry2")
        /\ endErr[t] = ErrRollback

\* C9: when the unit of work returned nil, execTx opened one transaction, ran
\* the unit of work once, issued one commit and no rollback, and returned
\* what the commit returned; the transaction is committed exactly when that
\* is nil.
C9_CommitPath ==
    \A t \in Calls :
        (pc[t] = "done" /\ Count(issued[t], "fn") > 0 /\ fnRet[t] = Nil)
            => /\ issued[t] = <<"BeginTx", "fn", "Commit">>
               /\ ret[t] = endErr[t]
               /\ (txStatus[t] = "committed") <=> (endErr[t] = Nil)

\* C9 witness: the commit failed and execTx returned its error.
C9_Witness ==
    \E t \in Calls : pc[t] = "done" /\ fnRet[t] = Nil /\ ret[t] = ErrCommit

\* C10: a call whose context was cancelled while its transaction was open
\* never commits: none of its rows or balance changes is visible, and when it
\* has returned its transaction is rolled back and the error is not nil.
C10_CancelledNeverCommits ==
    \A t \in Calls :
        (ctxDone[t] /\ txStatus[t] # "none")
            => /\ txStatus[t] # "committed"
               /\ NoRowVisible(t)
               /\ BalancesWithout(t)
               /\ pc[t] = "done" => (txStatus[t] = "rolledback" /\ ret[t] # Nil)

\* C10 witness: the context was cancelled after the first balance update,
\* the second one failed on it, and the call has returned.
C10_Witness ==
    \E t \in Calls :
        /\ ctxDone[t]
        /\ pc[t] = "done"
        /\ failedAt[t] = "update2"
        /\ applied[t] # [a \in Accounts |-> 0]

\* C11: every committed Transfer row has exactly two Entry rows of its own
\* transaction: one on its from account with minus its amount and one on its
\* to account with plus its amount.
C11_EntrySymmetry ==
    \A r \in transfers :
        EntryRowsOf(r.ID) =
            {[ID |-> 2 * r.ID - 1, AccountID |-> r.FromAccountID, Amount |-> -r.Amount],
             [ID |-> 2 * r.ID, AccountID |-> r.ToAccountID, Amount |-> r.Amount]}

\* C11 witness: a call has committed its Transfer row and two Entry rows.
C11_Witness ==
    \E t \in Calls :
        /\ txStatus[t] = "committed"
        /\ TransferRowOf(t) # {}
        /\ Cardinality(EntryRowsOf(t)) = 2

\* C12: in TestTransferTx's scenario (NumCalls concurrent calls of TestAmount
\* from account 1 to account 2) every call that returned returned nil, and
\* once all have returned account 1 has lost and account 2 has gained
\* NumCalls * TestAmount and there are NumCalls Transfer rows and
\* 2 * NumCalls Entry rows.
C12_ConcurrentSameDirection ==
    /\ \A t \in Calls : pc[t] = "done" => ret[t] = Nil
    /\ (\A t \in Calls : pc[t] = "done")
          => /\ balance[1] = InitBalance - NumCalls * TestAmount
             /\ balance[2] = InitBalance + NumCalls * TestAmount
             /\ Cardinality(transfers) = NumCalls
             /\ Cardinality(entries) = 2 * NumCalls

\* C12 witness: all the calls from account 1 to account 2 have returned.
C12_Witness ==
    \A t \in Calls :
        pc[t] = "done" /\ arg[t].FromAccountID = 1 /\ arg[t].ToAccountID = 2

\* C13: in TestTransferTx's scenario the result of every call that returned
\* nil shows account 1 lowered and account 2 raised by the same positive
\* multiple k * TestAmount of the amount, with 1 <= k <= NumCalls.
C13_ResultBalances ==
    \A t \in Calls :
        (pc[t] = "done" /\ ret[t] = Nil)
            => LET diff1 == InitBalance - result[t].FromAccount.Balance
                   diff2 == result[t].ToAccount.Balance - InitBalance
               IN /\ diff1 = diff2
                  /\ diff1 > 0
                  /\ diff1 % arg[t].Amount = 0
                  /\ diff1 \div arg[t].Amount \in 1..NumCalls

\* C13 witness: a call returned nil after another had already committed, so
\* its result shows more than its own transfer.
C13_Witness ==
    \E t \in Calls :
        /\ pc[t] = "done" /\ ret[t] = Nil
        /\ arg[t].Amount = TestAmount
        /\ InitBalance - result[t].FromAccount.Balance > TestAmount

\* The calls that were made, and those of them from account 1 to account 2.
Started == {t \in Calls : pc[t] # "idle"}
StartedFrom1 == {t \in Started : arg[t].FromAccountID = 1}

\* C14: in TestTransferTxDeadlock's scenario, when as many calls go from
\* account 1 to account 2 as the other way and all of them have returned,
\* every account's balance is its balance before the first call.
C14_AlternatingRestoresBalances ==
    (/\ Started # {}
     /\ \A t \in Started : pc[t] = "done"
     /\ 2 * Cardinality(StartedFrom1) = Cardinality(Started))
        => \A a \in Accounts : balance[a] = InitBalance

\* C14 witness: two calls in opposite directions between accounts 1 and 2
\* have both committed and no other call is running.
C14_Witness ==
    /\ \A t \in Started : pc[t] = "done"
    /\ 2 * Cardinality(StartedFrom1) = Cardinality(Started)
    /\ \E t \in Started, u \in Started :
          /\ arg[t].FromAccountID = 1 /\ arg[u].FromAccountID = 2
          /\ txStatus[t] = "committed" /\ txStatus[u] = "committed"

\* What of call t is visible to other transactions: its Transfer row, its two
\* Entry rows, and the two balance changes its committed transaction applied.
AllVisible(t) ==
    /\ TransferRowOf(t) # {}
    /\ Cardinality(EntryRowsOf(t)) = 2
    /\ txStatus[t] = "committed"
    /\ applied[t][arg[t].FromAccountID] = -arg[t].Amount
    /\ applied[t][arg[t].ToAccountID] = arg[t].Amount
NoneVisible(t) == NoRowVisible(t) /\ BalancesWithout(t)

\* C15 (as claimed): a transfer is pending or aborted, with none of its
\* effects visible, or committed, with all of them visible: no state shows
\* only part of its effects.
C15_NoPartialState ==
    \A t \in Started :
        /\ txStatus[t] \in {"none", "open", "aborted", "rolledback"} => NoneVisible(t)
        /\ txStatus[t] = "committed" => AllVisible(t)

\* C16 (as claimed): when TransferTx has returned a non-nil error, the
\* TransferTxResult it returned is the zero value: no field holds a row the
\* failed call wrote.
C16_NoPartialResult ==
    \A t \in Calls :
        (pc[t] = "done" /\ ret[t] # Nil) => result[t] = ZeroResult

\* C17 (as claimed): a call between two different existing accounts with an
\* amount of zero or less has returned a non-nil error, and none of its rows
\* and balance changes is visible.
C17_NonPositiveAmountRejected ==
    \A t \in Calls :
        (/\ pc[t] = "done"
         /\ arg[t].Amount <= 0
         /\ arg[t].FromAccountID # arg[t].ToAccountID
         /\ AccountsOf(t) \subseteq Accounts)
            => ret[t] # Nil /\ NoRowVisible(t) /\ BalancesWithout(t)

\* C18 (as claimed): a call with a positive amount whose from account is
\* its to account, an existing one, has returned a non-nil error, and none of
\* its rows and balance changes is visible.
C18_SameAccountRejected ==
    \A t \in Calls :
        (/\ pc[t] = "done"
         /\ arg[t].FromAccountID = arg[t].ToAccountID
         /\ arg[t].FromAccountID \in Accounts
         /\ arg[t].Amount > 0)
            => ret[t] # Nil /\ NoRowVisible(t) /\ BalancesWithout(t)

\* C19: a call naming an account that does not exist has returned a non-nil
\* error and none of its rows and balance changes is visible; the first thing
\* it issued is BeginTx and the failure is that of a statement of the unit of
\* work.
C19_MissingAccountFails ==
    \A t \in Calls :
        (pc[t] = "done" /\ ~(AccountsOf(t) \subseteq Accounts))
            => /\ ret[t] # Nil
               /\ NoRowVisible(t)
               /\ BalancesWithout(t)
               /\ issued[t][1] = "BeginTx"
               /\ failedAt[t] \in FnSteps

\* C19 witness: a call from an account that exists to one that does not has
\* returned.
C19_Witness ==
    \E t \in Calls :
        /\ pc[t] = "done"
        /\ arg[t].FromAccountID \in Accounts
        /\ arg[t].ToAccountID \notin Accounts
        /\ arg[t].Amount > 0

\* C20 (as claimed): every committed balance is the initial balance plus the
\* deltas of the committed changes made to it; no change of a balance
\* overwrites another one.
C20_OnlyAtomicDeltas ==
    \A a \in Accounts : balance[a] = BalanceFrom(Calls, a)

GetAccountById(a) == balance[a]

\* C22 (as claimed): once a call from A to B has returned with its
\* transaction committed and no other call touches A or B, A's balance reads
\* as its balance before the call minus the amount and B's as its balance
\* before the call plus the amount.
C22_ReadAfterWrite ==
    \A t \in Calls :
        (/\ pc[t] = "done"
         /\ txStatus[t] = "committed"
         /\ \A u \in Calls \ {t} : pc[u] = "idle" \/ AccountsOf(u) \cap AccountsOf(t) = {})
            => /\ GetAccountById(arg[t].FromAccountID) = InitBalance - arg[t].Amount
               /\ GetAccountById(arg[t].ToAccountID) = InitBalance + arg[t].Amount

\* Call t has a connection of the pool: BeginTx acquired it and neither
\* Commit nor Rollback has given it back.
HoldsConn(t) == txStatus[t] \in {"open", "aborted"}

\* C23 (as claimed): when control has left execTx, by return or by panic, the
\* call holds no connection of the pool.
C23_ConnectionReleased ==
    \A t \in Calls : pc[t] \in {"done", "panicked"} => ~HoldsConn(t)

\* C24: in TestTransferTx's scenario every call that returned has committed
\* with a nil error, whatever the balance of account 1 was, and its result
\* shows that balance lowered by its amount, below zero or not.
C24_NoFundsCheck ==
    \A t \in Calls :
        pc[t] = "done"
            => /\ ret[t] = Nil
               /\ txStatus[t] = "committed"
               /\ applied[t][arg[t].FromAccountID] = -arg[t].Amount
               /\ \E k \in 1..NumCalls :
                     result[t].FromAccount.Balance = InitBalance - k * arg[t].Amount

\* C24 witness: a transfer of more than the balance of account 1 has
\* committed and the committed balance of account 1 is negative.
C24_Witness ==
    \E t \in Calls :
        /\ pc[t] = "done" /\ txStatus[t] = "committed"
        /\ arg[t].Amount > InitBalance
        /\ GetAccountById(arg[t].FromAccountID) < 0

\* The account of call t with the smaller id, and the one with the larger id.
SmallerID(t) ==
    IF arg[t].FromAccountID < arg[t].ToAccountID
    THEN arg[t].FromAccountID ELSE arg[t].ToAccountID
LargerID(t) ==
    IF arg[t].FromAccountID < arg[t].ToAccountID
    THEN arg[t].ToAccountID ELSE arg[t].FromAccountID

\* C30: at each statement of a call, its transaction holds exactly what the
\* statements before it wrote: the Transfer row, then the from Entry, then
\* the to Entry, then the balance of the account with the smaller id, then
\* the balance of the account with the larger id, whichever of the two is the
\* from account.
C30_StatementOrder ==
    \A t \in Calls :
        LET nTransfers == Cardinality(txRows[t].transfers)
            entryIDs == {r.ID : r \in txRows[t].entries}
            written == DOMAIN txWrites[t]
        IN /\ pc[t] = "transfer" => nTransfers = 0 /\ entryIDs = {} /\ written = {}
           /\ pc[t] = "entry1" => nTransfers = 1 /\ entryIDs = {} /\ written = {}
           /\ pc[t] = "entry2" => nTransfers = 1 /\ entryIDs = {2 * t - 1} /\ written = {}
           /\ pc[t] = "update1"
                => nTransfers = 1 /\ entryIDs = {2 * t - 1, 2 * t} /\ written = {}
           /\ pc[t] = "update2"
                => nTransfers = 1 /\ entryIDs = {2 * t - 1, 2 * t}
                   /\ written = {SmallerID(t)}
           /\ pc[t] = "commit"
                => nTransfers = 1 /\ entryIDs = {2 * t - 1, 2 * t}
                   /\ written = {SmallerID(t), LargerID(t)}

\* C30 witness: a call whose to account has the smaller id has updated the
\* balance of its to account and not yet that of its from account.
C30_Witness ==
    \E t \in Calls :
        /\ pc[t] = "update2"
        /\ arg[t].ToAccountID < arg[t].FromAccountID
        /\ DOMAIN txWrites[t] = {arg[t].ToAccountID}


\* The last request was handled by getAccount, listAccounts or createAccount.
IsGetAccount == http.req.method = "GET" /\ http.req.path = "/accounts/:id"
IsListAccounts == http.req.method = "GET" /\ http.req.path = "/accounts"
IsCreateAccount == http.req.method = "POST" /\ http.req.path = "/accounts"
IsPostTransfers == http.req.method = "POST" /\ http.req.path = "/transfers"

\* C25: GET /accounts/:id with a valid id calls GetAccountById exactly once and
\* answers 200 with the account when the store returns it, 404 when the store
\* reports that no row exists for that id, and 500 for every other store error.
C25_GetAccountStatus ==
    (IsGetAccount /\ http.req.ID >= MinID) =>
        /\ http.calls = <<<<"GetAccountById", http.req.ID>>>>
        /\ http.storeErr = Nil =>
              /\ http.status = StatusOK
              /\ Len(http.body) = 1
              /\ http.body[1] \in AccountRows
              /\ http.body[1].ID = http.req.ID
        /\ http.storeErr = ErrNoRows => http.status = StatusNotFound
        /\ http.storeErr \notin {Nil, ErrNoRows} =>
              http.status = StatusInternalServerError

\* What getAccount does keep of C25: one call of GetAccountById, 200 with the
\* account when the store returns it, and 500 for every error of the store,
\* the missing row included.
C25_GetAccountAsCoded ==
    (IsGetAccount /\ http.req.ID >= MinID) =>
        /\ http.calls = <<<<"GetAccountById", http.req.ID>>>>
        /\ http.storeErr = Nil =>
              /\ http.status = StatusOK
              /\ Len(http.body) = 1
              /\ http.body[1] \in AccountRows
              /\ http.body[1].ID = http.req.ID
        /\ http.storeErr # Nil => http.status = StatusInternalServerError

C25_Witness ==
    /\ IsGetAccount
    /\ http.req.ID >= MinID
    /\ http.storeErr = ErrNoRows
    /\ http.status = StatusInternalServerError

\* C26: GET /accounts/:id with an id smaller than 1 answers 400 and the store's
\* GetAccountById is never called for that request.
C26_InvalidIdRejected ==
    (IsGetAccount /\ http.req.ID < 1) =>
        /\ http.status = StatusBadRequest
        /\ http.calls = <<>>

C26_Witness ==
    /\ IsGetAccount
    /\ http.req.ID < 0
    /\ http.status = StatusBadRequest
    /\ http.calls = <<>>

\* The rows of a page are in ascending order of id.
Ascending(rows) ==
    \A i \in DOMAIN rows : \A j \in DOMAIN rows : i < j => rows[i].ID < rows[j].ID

\* The ids of the rows that precede row r in the table.
Preceding(r) == {x \in AccountRows : x.ID < r.ID}

\* C27: listAccounts returns accounts in ascending id order, at most limit of
\* them starting after offset; through the HTTP handler the limit is always
\* within 5..10, the offset equals (page_id - 1) * page_size and is never
\* negative, and a request with page_id < 1 or page_size outside 5..10 answers
\* 400 without calling the store.
C27_ListAccounts ==
    IsListAccounts =>
        IF \/ http.req.PageID < 1
           \/ http.req.PageSize < MinPageSize
           \/ http.req.PageSize > MaxPageSize
        THEN http.status = StatusBadRequest /\ http.calls = <<>>
        ELSE /\ Len(http.calls) = 1
             /\ http.calls[1][1] = "ListAccounts"
             /\ http.calls[1][2] \in MinPageSize..MaxPageSize
             /\ http.calls[1][2] = http.req.PageSize
             /\ http.calls[1][3] >= 0
             /\ http.req.PageID <= 2 =>
                   http.calls[1][3] = (http.req.PageID - 1) * http.req.PageSize
             /\ http.storeErr = Nil =>
                   /\ http.status = StatusOK
                   /\ Ascending(http.body)
                   /\ Len(http.body) <= http.calls[1][2]
                   /\ \A i \in DOMAIN http.body :
                         /\ http.body[i] \in AccountRows
                         /\ Cardinality(Preceding(http.body[i])) = http.calls[1][3] + i - 1

\* What listAccounts does keep of C27: as C27, but for the sign of the
\* offset and for the pages the store is asked and answers.
C27_ListAccountsAsCoded ==
    IsListAccounts =>
        IF \/ http.req.PageID < 1
           \/ http.req.PageSize < MinPageSize
           \/ http.req.PageSize > MaxPageSize
        THEN http.status = StatusBadRequest /\ http.calls = <<>>
        ELSE /\ Len(http.calls) = 1
             /\ http.calls[1][1] = "ListAccounts"
             /\ http.calls[1][2] = http.req.PageSize
             /\ http.req.PageID <= 2 =>
                   http.calls[1][3] = (http.req.PageID - 1) * http.req.PageSize
             /\ http.calls[1][3] < 0 => http.status = StatusInternalServerError
             /\ http.storeErr = Nil =>
                   /\ http.status = StatusOK
                   /\ http.calls[1][3] >= 0
                   /\ Ascending(http.body)
                   /\ Len(http.body) <= http.calls[1][2]
                   /\ \A i \in DOMAIN http.body :
                         /\ http.body[i] \in AccountRows
                         /\ Cardinality(Preceding(http.body[i])) = http.calls[1][3] + i - 1

C27_Witness ==
    /\ IsListAccounts
    /\ http.req.PageID = MaxInt32
    /\ http.req.PageSize = MaxPageSize
    /\ Len(http.calls) = 1
    /\ http.calls[1][3] < 0
    /\ http.status = StatusInternalServerError

\* A page cut short by the limit, and a second page starting after the offset.
C27_PageWitness ==
    /\ IsListAccounts
    /\ http.storeErr = Nil
    /\ Len(http.calls) = 1
    /\ \/ Len(http.body) = MinPageSize /\ Cardinality(AccountRows) > MinPageSize
       \/ http.calls[1][3] = MinPageSize /\ Len(http.body) = 1

\* C28: createAccount with an empty owner or an empty currency fails with a
\* validation error (HTTP 400) and creates no account; with both present it
\* creates exactly one account whose Owner, Currency and Balance equal the
\* values passed to the store and whose ID is non-zero (when the store's insert
\* succeeds; when it fails the answer is 500 and no account is created).
C28_CreateAccount ==
    IsCreateAccount =>
        IF http.req.Owner = "" \/ http.req.Currency = ""
        THEN /\ http.status = StatusBadRequest
             /\ http.calls = <<>>
             /\ http.created = http.before
        ELSE /\ http.calls = <<<<"CreateAccount", http.req.Owner, http.req.Currency, 0>>>>
             /\ http.storeErr # Nil =>
                   /\ http.status = StatusInternalServerError
                   /\ http.created = http.before
             /\ http.storeErr = Nil =>
                   /\ http.status = StatusOK
                   /\ Len(http.body) = 1
                   /\ http.body[1] \notin http.before
                   /\ http.created = http.before \cup {http.body[1]}
                   /\ http.body[1].Owner = http.calls[1][2]
                   /\ http.body[1].Currency = http.calls[1][3]
                   /\ http.body[1].Balance = http.calls[1][4]
                   /\ http.body[1].ID # 0
                   /\ \A r \in http.before : r.ID # http.body[1].ID
                   /\ http.body[1].ID \notin Accounts

C28_Witness ==
    /\ IsCreateAccount
    /\ http.req.Owner = "alice"
    /\ http.req.Currency = "EUR"
    /\ http.status = StatusOK
    /\ Cardinality(http.before) = 1
    /\ Cardinality(http.created) = 2

\* C29: the HTTP layer accepts a transfer request {fromAccountId, toAccountId,
\* amount}, calls TransferTx once, and answers 200 with the TransferTxResult on
\* success, 404 when an account is absent, 400 on a validation error, and 500
\* on every other error.
C29_TransferEndpoint ==
    IsPostTransfers =>
        /\ Len(http.calls) = 1
        /\ http.calls[1][1] = "TransferTx"
        /\ http.status \in {StatusOK, StatusNotFound, StatusBadRequest,
                            StatusInternalServerError}
        /\ http.status = StatusNotFound =>
              \/ http.req.FromAccountID \notin Accounts
              \/ http.req.ToAccountID \notin Accounts

\* What the router does with POST /transfers: 404, and no call of the store.
C29_TransferNotRouted ==
    IsPostTransfers => (http.status = StatusNotFound /\ http.calls = <<>>)

C29_Witness ==
    /\ IsPostTransfers
    /\ http.req.FromAccountID = 1
    /\ http.req.ToAccountID = 2
    /\ http.req.Amount = MaxAmount
    /\ http.status = StatusNotFound
    /\ http.calls = <<>>


\* The TransferTxResult of call t once its commit has succeeded: both
\* accounts with the balances the commit installs, the Transfer and the two
\* Entry rows as requested.
ResultAsRequested(t) ==
    LET p == arg[t] IN
    /\ result'[t].FromAccount.ID = p.FromAccountID
    /\ result'[t].FromAccount.Balance = balance[p.FromAccountID] - p.Amount
    /\ result'[t].FromAccount.Balance = balance'[p.FromAccountID]
    /\ result'[t].ToAccount.ID = p.ToAccountID
    /\ result'[t].ToAccount.Balance = balance[p.ToAccountID] + p.Amount
    /\ result'[t].ToAccount.Balance = balance'[p.ToAccountID]
    /\ result'[t].Transfer.FromAccountID = p.FromAccountID
    /\ result'[t].Transfer.ToAccountID = p.ToAccountID
    /\ result'[t].Transfer.Amount = p.Amount
    /\ result'[t].FromEntry.AccountID = p.FromAccountID
    /\ result'[t].FromEntry.Amount = -p.Amount
    /\ result'[t].ToEntry.AccountID = p.ToAccountID
    /\ result'[t].ToEntry.Amount = p.Amount

\* C31: for every successful TransferTx call, whichever of the two ids is
\* smaller, result.FromAccount is the from account with its balance after
\* -amount, result.ToAccount is the to account with its balance after +amount,
\* result.Transfer carries the requested from id, to id and amount,
\* result.FromEntry has the from account and -amount and result.ToEntry has
\* the to account and +amount.
C31_ResultAsRequested ==
    [][\A t \in Calls :
          (pc[t] = "commit" /\ pc'[t] = "done" /\ ret'[t] = Nil) => ResultAsRequested(t)]_vars

\* A call returns nil with the from account holding the larger id.
C31_Witness ==
    \E t \in Calls :
        /\ pc[t] = "done" /\ ret[t] = Nil
        /\ arg[t].FromAccountID > arg[t].ToAccountID
        /\ result[t].FromAccount.ID = arg[t].FromAccountID
        /\ result[t].ToAccount.ID = arg[t].ToAccountID


\* Call t is running: TransferTx was called and has not returned.
Running(t) == pc[t] \notin {"idle", "done", "panicked", "updated"}

\* C32: two concurrent TransferTx calls on disjoint account pairs never block
\* each other: in every reachable state each running call has its next step
\* enabled, however far the other has progressed; and once all have returned
\* the balances, Transfer rows and Entry rows are those the parameters
\* determine, whatever the interleaving was.
C32_DisjointNeverBlock ==
    /\ \A t \in AnyCalls : Running(t) => (Blocker(t) = 0 /\ ENABLED StepNoFault(t))
    /\ (\A t \in AnyCalls : pc[t] = "done") =>
          /\ \A t \in AnyCalls : ret[t] = Nil
          /\ \A a \in DOMAIN balance :
                balance[a] = InitBalance
                    - SumOver({t \in AnyCalls : arg[t].FromAccountID = a},
                              [t \in Calls |-> arg[t].Amount])
                    + SumOver({t \in AnyCalls : arg[t].ToAccountID = a},
                              [t \in Calls |-> arg[t].Amount])
          /\ transfers = {[ID |-> t, FromAccountID |-> arg[t].FromAccountID,
                           ToAccountID |-> arg[t].ToAccountID,
                           Amount |-> arg[t].Amount] : t \in AnyCalls}
          /\ entries = {[ID |-> 2 * t - 1, AccountID |-> arg[t].FromAccountID,
                         Amount |-> -arg[t].Amount] : t \in AnyCalls}
                       \cup {[ID |-> 2 * t, AccountID |-> arg[t].ToAccountID,
                              Amount |-> arg[t].Amount] : t \in AnyCalls}

\* Two calls on disjoint pairs both hold row locks at the same time.
C32_Witness ==
    \E t \in AnyCalls, u \in AnyCalls :
        /\ t # u
        /\ pc[t] = "commit" /\ pc[u] = "update2"
        /\ AccountsOf(t) \cap AccountsOf(u) = {}
        /\ \E a \in DOMAIN lockOwner : lockOwner[a] = t
        /\ \E a \in DOMAIN lockOwner : lockOwner[a] = u


\* Call t has returned and its transaction, if it opened one, has ended by
\* a completed commit or rollback.
ReturnedAfterEnd(t) ==
    pc[t] = "done" =>
        \/ issued[t] = <<"BeginTx">> /\ txStatus[t] = "none"
        \/ /\ issued[t] \in {<<"BeginTx", "fn", "Commit">>, <<"BeginTx", "fn", "Rollback">>}
           /\ txStatus[t] \in {"committed", "rolledback"}
           /\ \A a \in DOMAIN lockOwner : lockOwner[a] # t

\* C33: termination: under fair scheduling, with a storage engine whose
\* statements each either succeed or fail, every TransferTx call eventually
\* returns to its caller, and it returns only after the commit or rollback of
\* its transaction has completed.
C33_Termination ==
    /\ [](\A t \in AnyCalls : ReturnedAfterEnd(t))
    /\ \A t \in AnyCalls : (pc[t] # "idle") ~> (pc[t] = "done")

\* A call has returned after it had to wait for a row lock and a statement failed.
C33_Witness ==
    \E t \in AnyCalls, u \in AnyCalls :
        /\ t # u
        /\ pc[t] = "done" /\ pc[u] = "done"
        /\ txStatus[t] = "committed" /\ txStatus[u] = "rolledback"
        /\ AccountsOf(t) \cap AccountsOf(u) # {}


\* The sum of the amounts of the committed Entry rows of account a.
EntrySum(a) ==
    LET rows == {r \in entries : r.AccountID = a}
    IN SumOver(rows, [r \in rows |-> r.Amount])

\* C34 (as claimed): in every committed state reached by account creation and
\* TransferTx, each account's balance is its balance at creation plus the sum
\* of the amounts of all committed Entry rows of that account, also after a
\* balance update inside a transfer failed.
C34_LedgerConsistency ==
    \A a \in DOMAIN balance : balance[a] = InitBalance + EntrySum(a)

\* C35: in every committed state there are exactly twice as many Entry rows
\* as Transfer rows, and every committed Entry row comes with the Transfer
\* row of its transaction and with the Entry row of the opposite sign.
C35_EntriesTwiceTransfers ==
    /\ Cardinality(entries) = 2 * Cardinality(transfers)
    /\ \A e \in entries :
          LET t == (e.ID + 1) \div 2 IN
          /\ \E r \in transfers : r.ID = t
          /\ \E o \in entries :
                /\ o.ID # e.ID
                /\ (o.ID + 1) \div 2 = t
                /\ o.Amount = -e.Amount

\* A call committed its Transfer row and both Entry rows although a balance
\* update failed.
C35_Witness ==
    \E t \in Calls :
        /\ pc[t] = "done"
        /\ txStatus[t] = "committed"
        /\ failedAt[t] \in {"update1", "update2"}
        /\ Cardinality(entries) = 2
        /\ Cardinality(transfers) = 1


\* Call t asked for a transaction and got none: BeginTx failed.
BeginFailed(t) == issued[t] # <<>> /\ txStatus[t] = "none"

\* C36: when opening the transaction fails, execTx returns that error
\* without invoking the unit of work and without issuing commit or rollback,
\* and TransferTx returns the zero-valued result with that error and leaves
\* all persisted state unchanged.
C36_BeginFailure ==
    \A t \in Calls :
        BeginFailed(t) =>
            /\ pc[t] = "done"
            /\ issued[t] = <<"BeginTx">>
            /\ ret[t] \in {ErrBegin, ErrCtx}
            /\ result[t] = ZeroResult
            /\ fnErr[t] = Nil /\ fnRet[t] = Nil /\ failedAt[t] = ""
            /\ endErr[t] = Nil
            /\ txWrites[t] = NoWrites
            /\ txRows[t] = [transfers |-> {}, entries |-> {}]
            /\ \A a \in DOMAIN lockOwner : lockOwner[a] # t
            /\ NoRowVisible(t)
            /\ BalancesWithout(t)

\* BeginTx failed on the database and TransferTx returned its error.
C36_Witness ==
    \E t \in Calls :
        /\ pc[t] = "done"
        /\ issued[t] = <<"BeginTx">>
        /\ ret[t] = ErrBegin
        /\ result[t] = ZeroResult


\* C37: for three or more concurrent TransferTx calls whose account pairs
\* form a cycle (A to B, B to C, C to A), no reachable state contains a
\* circular wait among their row-lock requests, and under fair scheduling all
\* of them complete.
C37_CycleCompletes ==
    /\ [](\A t \in Calls : ~Deadlocked(t))
    /\ <>(\A t \in Calls : pc[t] = "done" /\ ret[t] = Nil /\ txStatus[t] = "committed")

\* A chain of waits among the calls of the cycle: one call waits for the row
\* lock of a second one, which waits for the row lock of a third.
C37_Witness ==
    \E t \in Calls, u \in Calls, v \in Calls :
        /\ Cardinality({t, u, v}) = 3
        /\ WaitsFor(t, u)
        /\ WaitsFor(u, v)
        /\ arg[t].ToAccountID = arg[u].FromAccountID \/ arg[u].ToAccountID = arg[t].FromAccountID

====
